---- MODULE Spec2Model ----
(***************************************************************************)
(* Model of yorkxin/mp3len: the ID3v2 tag decoder (internal/id3), the      *)
(* MPEG frame header parser (internal/mp3header) and the duration          *)
(* estimator (measure.go).                                                 *)
(*                                                                         *)
(* A stream is a finite sequence of bytes.  Every io.Reader over it is a   *)
(* cursor (an offset); io.LimitReader adds a count of bytes it may still   *)
(* deliver.  Decoder.Decode and SkipReader.ReadThrough are split at their  *)
(* read calls, one action per read.                                        *)
(***************************************************************************)
EXTENDS Integers, Sequences, FiniteSets, TLC

(***************************************************************************)
(* Bounds of the checked input space.                                      *)
(***************************************************************************)
MaxFrames == 2      \* frames laid out in a tag
MaxData == 2        \* payload bytes of one frame
MaxPad == 10        \* zero bytes after the last frame
MaxTrail == 2       \* bytes following the tag region (audio)
MaxInfoTag == 1     \* tag size of the streams handed to GetInfo
MaxTotal == 500     \* largest total length handed to GetInfo
MaxSize == 300       \* largest of the small sizes handed to encodeTagSize
MaxText == 2         \* runes of a string handed to SetText
MaxPayload == 6      \* bytes after the encoding flag of a frame handed to Text

(***************************************************************************)
(* Program constants.                                                      *)
(***************************************************************************)
lenOfHeader == 10
NoLimit == -1       \* reader not wrapped in an io.LimitReader

id3v2Flag == <<73, 68, 51>>          \* "ID3"
idIE6 == <<73, 69, 54>>              \* "IE6"

\* error values
NoErr == ""
EOF == "EOF"
ErrUnexpectedEOF == "unexpected EOF"
ErrInvalidID3 == "invalid ID3 header"
ErrReadFrameFailed == "read frame failed"

(***************************************************************************)
(* Byte helpers.                                                           *)
(***************************************************************************)
Min(a, b) == IF a < b THEN a ELSE b

Zeros(n) == [i \in 1..n |-> 0]

Fill(n, b) == [i \in 1..n |-> b]

RECURSIVE Flatten(_)
Flatten(ss) == IF ss = <<>> THEN <<>> ELSE Head(ss) \o Flatten(Tail(ss))

RECURSIVE SumSeq(_)
SumSeq(s) == IF s = <<>> THEN 0 ELSE Head(s) + SumSeq(Tail(s))

\* bytes.Equal(header[:], allZero[:])
AllZero(bs) == \A i \in 1..Len(bs) : bs[i] = 0

\* binary.BigEndian.Uint32
Uint32BE(bs) == bs[1] * 16777216 + bs[2] * 65536 + bs[3] * 256 + bs[4]

\* a little-endian reading of two bytes
Uint16BE_littleEndian(bs) == bs[2] * 256 + bs[1]

\* binary.BigEndian.Uint16
Uint16BE(bs) == bs[1] * 256 + bs[2]

(***************************************************************************)
(* decodeTagSize / encodeTagSize: the sync-safe 28-bit integer.            *)
(***************************************************************************)
decodeTagSize(data) ==
    (data[1] % 128) * 2097152 + (data[2] % 128) * 16384
        + (data[3] % 128) * 128 + (data[4] % 128)

\* an encoding in whole bytes, 8 bits a place
encodeTagSize_wholeBytes(size) ==
    << (size \div 16777216) % 256, (size \div 65536) % 256,
       (size \div 256) % 256, size % 256 >>

\* encodeTagSize: the low 7 bits of size at each place, size >>= 7 between
encodeTagSize(size) ==
    << (size \div 2097152) % 128, (size \div 16384) % 128,
       (size \div 128) % 128, size % 128 >>

(***************************************************************************)
(* io.ReadFull on a reader that can still deliver avail bytes: the number  *)
(* of bytes read and the error.                                            *)
(***************************************************************************)
ReadFullN(avail, k) == Min(k, avail)

ReadFullErr(avail, k) ==
    IF avail >= k THEN NoErr
    ELSE IF avail = 0 THEN EOF
    ELSE ErrUnexpectedEOF

\* io.CopyN(ioutil.Discard, r, k)
CopyNWritten(avail, k) == Min(k, avail)

\* a copy that reports no error when the reader runs dry
CopyNErr_ignoreShort(avail, k) == NoErr

CopyNErr(avail, k) == IF Min(k, avail) = k THEN NoErr ELSE EOF

\* a check that lets lowercase letters through
ValidIDByte_anyLetter(c) ==
    (65 <= c /\ c <= 90) \/ (97 <= c /\ c <= 122) \/ (48 <= c /\ c <= 57)

\* the frame ID check of readFrame
ValidIDByte(c) == (65 <= c /\ c <= 90) \/ (48 <= c /\ c <= 57)

ValidID(idRaw) == \A i \in 1..4 : ValidIDByte(idRaw[i])

(***************************************************************************)
(* State.                                                                  *)
(***************************************************************************)
VARIABLES
    stream,     \* the bytes of the input
    totalSize,  \* the total length handed to GetInfo
    \* Decoder
    d_pc,       \* position inside Decode: "Decode", "readFrame", "readData", "discard", "return"
    d_off,      \* bytes the decoder's reader has taken from the stream
    d_lim,      \* io.LimitReader: bytes it may still deliver (NoLimit before it is installed)
    d_n,        \* Decoder.n
    d_size,     \* header.size of Decode
    d_hdr,      \* the frame header readFrame has just read
    d_tag,      \* Decoder.tag: <<>> is nil, <<t>> points to t
    d_ret,      \* the *Tag Decode returned: <<>> is nil
    d_err,      \* the error Decode returned
    d_iter,     \* calls of readFrame so far
    \* SkipReader
    s_pc,       \* position inside ReadThrough: "ReadThrough", "discard", "return"
    s_off,      \* bytes the skip reader's reader has taken from the stream
    s_lim,      \* io.LimitReader of the skip reader
    s_n,        \* SkipReader.n
    s_size,     \* header.size of ReadThrough
    s_ret,      \* the int ReadThrough returned
    s_err,      \* the error ReadThrough returned
    \* GetInfo
    g_pc,       \* position inside GetInfo: "tag", "read", "parse", "calc", "return", "panic", "idle"
    tagSize,    \* metadata.tagSize
    headerBits, \* the uint32 read after the tag, as <<high 16 bits, low 16 bits>>
    mp3Header,  \* metadata.mp3Header
    duration,   \* metadata.duration, in nanoseconds
    g_err,      \* the error GetInfo returned
    \* a function under test
    fn_pc,      \* "call" before the function is applied, "done" after, "idle"
    fn_in,      \* its argument
    fn_out      \* its result

decVars == <<d_pc, d_off, d_lim, d_n, d_size, d_hdr, d_tag, d_ret, d_err, d_iter>>
skipVars == <<s_pc, s_off, s_lim, s_n, s_size, s_ret, s_err>>
infoVars == <<g_pc, tagSize, headerBits, mp3Header, duration, g_err>>
fnVars == <<fn_pc, fn_in, fn_out>>
vars == <<stream, totalSize, decVars, skipVars, infoVars, fnVars>>

\* a reader whose limit was never installed
Avail_noLimit(off, lim) == Len(stream) - off

\* bytes a reader at offset off with limit lim can still deliver
Avail(off, lim) ==
    IF lim = NoLimit THEN Len(stream) - off
    ELSE Min(lim, Len(stream) - off)

\* the next k bytes at offset off (fewer when the reader runs dry)
Peek(off, lim, k) == SubSeq(stream, off + 1, off + Min(k, Avail(off, lim)))

\* a limit that forgets what it has delivered
LimitAfter_noCount(lim, n) == lim

\* io.LimitReader after n of its bytes were delivered
LimitAfter(lim, n) == IF lim = NoLimit THEN NoLimit ELSE lim - n

(***************************************************************************)
(* readTagHeader: what it reports for a reader at offset off.              *)
(***************************************************************************)
readTagHeaderN(off) == ReadFullN(Avail(off, NoLimit), 10)

\* a header read that does not look at the marker
readTagHeaderErr_noMarker(off) == ReadFullErr(Avail(off, NoLimit), 10)

readTagHeaderErr(off) ==
    LET err == ReadFullErr(Avail(off, NoLimit), 10)
        header == Peek(off, NoLimit, 10)
    IN  IF err # NoErr THEN err
        ELSE IF SubSeq(header, 1, 3) # id3v2Flag THEN ErrInvalidID3
        ELSE NoErr

readTagHeaderH(off) ==
    LET header == Peek(off, NoLimit, 10)
    IN  [version |-> header[4], revision |-> header[5], flags |-> header[6],
         size |-> decodeTagSize(SubSeq(header, 7, 10))]

(***************************************************************************)
(* Decoder.Decode                                                          *)
(***************************************************************************)
\* Decode, lines 68-85: read the tag header, build the Tag, install the limit
DecodeHeader ==
    /\ d_pc = "Decode"
    /\ LET n == readTagHeaderN(d_off)
           err == readTagHeaderErr(d_off)
           header == readTagHeaderH(d_off)
       IN  /\ d_n' = d_n + n
           /\ d_off' = d_off + n
           /\ IF err # NoErr
              THEN /\ d_pc' = "return"
                   /\ d_ret' = <<>>
                   /\ d_err' = err
                   /\ UNCHANGED <<d_tag, d_size, d_lim>>
              ELSE /\ d_tag' = << [Version |-> header.version,
                                   Revision |-> header.revision,
                                   Flags |-> header.flags,
                                   Frames |-> <<>>,
                                   PaddingSize |-> 0] >>
                   /\ d_size' = header.size
                   /\ d_lim' = header.size
                   /\ d_pc' = "readFrame"
                   /\ UNCHANGED <<d_ret, d_err>>
    /\ UNCHANGED <<d_hdr, d_iter>>
    /\ UNCHANGED <<fnVars, stream, totalSize, skipVars, infoVars>>

\* a loop that goes on reading frames after the all-zero header
ReadFrameHeader_noPadStop ==
    /\ d_pc = "readFrame"
    /\ LET avail == Avail(d_off, d_lim)
           n == ReadFullN(avail, 10)
           err == ReadFullErr(avail, 10)
           header == Peek(d_off, d_lim, 10)
       IN  /\ d_n' = d_n + n
           /\ d_off' = d_off + n
           /\ d_lim' = LimitAfter(d_lim, n)
           /\ d_hdr' = header
           /\ IF err = EOF
              THEN /\ d_pc' = "discard"
                   /\ UNCHANGED <<d_ret, d_err>>
              ELSE IF err # NoErr
              THEN /\ d_pc' = "return"
                   /\ d_ret' = <<>>
                   /\ d_err' = ErrReadFrameFailed
              ELSE IF AllZero(header)
              THEN /\ d_pc' = "readFrame"
                   /\ UNCHANGED <<d_ret, d_err>>
              ELSE IF ~ValidID(SubSeq(header, 1, 4))
              THEN /\ d_pc' = "return"
                   /\ d_ret' = <<>>
                   /\ d_err' = ErrReadFrameFailed
              ELSE /\ d_pc' = "readData"
                   /\ UNCHANGED <<d_ret, d_err>>
    /\ d_iter' = d_iter + 1
    /\ UNCHANGED <<d_size, d_tag>>
    /\ UNCHANGED <<fnVars, stream, totalSize, skipVars, infoVars>>

\* readFrame, lines 127-151, and what Decode does with a nil frame or an error
ReadFrameHeader ==
    /\ d_pc = "readFrame"
    /\ LET avail == Avail(d_off, d_lim)
           n == ReadFullN(avail, 10)
           err == ReadFullErr(avail, 10)
           header == Peek(d_off, d_lim, 10)
       IN  /\ d_n' = d_n + n
           /\ d_off' = d_off + n
           /\ d_lim' = LimitAfter(d_lim, n)
           /\ d_hdr' = header
           /\ IF err = EOF
              THEN /\ d_pc' = "discard"
                   /\ UNCHANGED <<d_ret, d_err>>
              ELSE IF err # NoErr
              THEN /\ d_pc' = "return"
                   /\ d_ret' = <<>>
                   /\ d_err' = ErrReadFrameFailed
              ELSE IF AllZero(header)
              THEN /\ d_pc' = "discard"
                   /\ UNCHANGED <<d_ret, d_err>>
              ELSE IF ~ValidID(SubSeq(header, 1, 4))
              THEN /\ d_pc' = "return"
                   /\ d_ret' = <<>>
                   /\ d_err' = ErrReadFrameFailed
              ELSE /\ d_pc' = "readData"
                   /\ UNCHANGED <<d_ret, d_err>>
    /\ d_iter' = d_iter + 1
    /\ UNCHANGED <<d_size, d_tag>>
    /\ UNCHANGED <<fnVars, stream, totalSize, skipVars, infoVars>>

\* a readFrame that counts the bytes of a data read only when it is full
ReadFrameData_dropPartial ==
    /\ d_pc = "readData"
    /\ LET size == Uint32BE(SubSeq(d_hdr, 5, 8))
           flags == Uint16BE(SubSeq(d_hdr, 9, 10))
           avail == Avail(d_off, d_lim)
           n == ReadFullN(avail, size)
           err == ReadFullErr(avail, size)
           data == Peek(d_off, d_lim, size)
           frame == [ID |-> SubSeq(d_hdr, 1, 4), Flags |-> flags, Data |-> data]
       IN  /\ d_n' = d_n + (IF err # NoErr THEN 0 ELSE n)
           /\ d_off' = d_off + n
           /\ d_lim' = LimitAfter(d_lim, n)
           /\ IF err = EOF
              THEN /\ d_pc' = "discard"
                   /\ UNCHANGED <<d_ret, d_err, d_tag>>
              ELSE IF err # NoErr
              THEN /\ d_pc' = "return"
                   /\ d_ret' = <<>>
                   /\ d_err' = ErrReadFrameFailed
                   /\ UNCHANGED d_tag
              ELSE /\ d_tag' = << [d_tag[1] EXCEPT !.Frames = Append(@, frame)] >>
                   /\ d_pc' = "readFrame"
                   /\ UNCHANGED <<d_ret, d_err>>
    /\ UNCHANGED <<d_size, d_hdr, d_iter>>
    /\ UNCHANGED <<fnVars, stream, totalSize, skipVars, infoVars>>

\* readFrame, lines 153-182, and Decode's append
ReadFrameData ==
    /\ d_pc = "readData"
    /\ LET size == Uint32BE(SubSeq(d_hdr, 5, 8))
           flags == Uint16BE(SubSeq(d_hdr, 9, 10))
           avail == Avail(d_off, d_lim)
           n == ReadFullN(avail, size)
           err == ReadFullErr(avail, size)
           data == Peek(d_off, d_lim, size)
           frame == [ID |-> SubSeq(d_hdr, 1, 4), Flags |-> flags, Data |-> data]
       IN  /\ d_n' = d_n + n
           /\ d_off' = d_off + n
           /\ d_lim' = LimitAfter(d_lim, n)
           /\ IF err = EOF
              THEN /\ d_pc' = "discard"
                   /\ UNCHANGED <<d_ret, d_err, d_tag>>
              ELSE IF err # NoErr
              THEN /\ d_pc' = "return"
                   /\ d_ret' = <<>>
                   /\ d_err' = ErrReadFrameFailed
                   /\ UNCHANGED d_tag
              ELSE /\ d_tag' = << [d_tag[1] EXCEPT !.Frames = Append(@, frame)] >>
                   /\ d_pc' = "readFrame"
                   /\ UNCHANGED <<d_ret, d_err>>
    /\ UNCHANGED <<d_size, d_hdr, d_iter>>
    /\ UNCHANGED <<fnVars, stream, totalSize, skipVars, infoVars>>

\* a Decode that returns the tag whatever the discard reported
DiscardPadding_noErrCheck ==
    /\ d_pc = "discard"
    /\ LET paddingSize == d_size + lenOfHeader - d_n
           avail == Avail(d_off, d_lim)
           nDiscarded == CopyNWritten(avail, paddingSize)
           tag == [d_tag[1] EXCEPT !.PaddingSize = paddingSize]
       IN  /\ d_tag' = <<tag>>
           /\ d_n' = d_n + nDiscarded
           /\ d_off' = d_off + nDiscarded
           /\ d_lim' = LimitAfter(d_lim, nDiscarded)
           /\ d_err' = NoErr
           /\ d_ret' = <<tag>>
           /\ d_pc' = "return"
    /\ UNCHANGED <<d_size, d_hdr, d_iter>>
    /\ UNCHANGED <<fnVars, stream, totalSize, skipVars, infoVars>>

\* Decode, lines 107-117: the padding size, the discard, the return
DiscardPadding ==
    /\ d_pc = "discard"
    /\ LET paddingSize == d_size + lenOfHeader - d_n
           avail == Avail(d_off, d_lim)
           nDiscarded == CopyNWritten(avail, paddingSize)
           err == CopyNErr(avail, paddingSize)
           tag == [d_tag[1] EXCEPT !.PaddingSize = paddingSize]
       IN  /\ d_tag' = <<tag>>
           /\ d_n' = d_n + nDiscarded
           /\ d_off' = d_off + nDiscarded
           /\ d_lim' = LimitAfter(d_lim, nDiscarded)
           /\ d_err' = err
           /\ d_ret' = IF err # NoErr THEN <<>> ELSE <<tag>>
           /\ d_pc' = "return"
    /\ UNCHANGED <<d_size, d_hdr, d_iter>>
    /\ UNCHANGED <<fnVars, stream, totalSize, skipVars, infoVars>>

(***************************************************************************)
(* SkipReader.ReadThrough                                                  *)
(***************************************************************************)
\* ReadThrough, lines 20-29
SkipHeader ==
    /\ s_pc = "ReadThrough"
    /\ LET n == readTagHeaderN(s_off)
           err == readTagHeaderErr(s_off)
           header == readTagHeaderH(s_off)
       IN  /\ s_n' = s_n + n
           /\ s_off' = s_off + n
           /\ IF err # NoErr
              THEN /\ s_pc' = "return"
                   /\ s_ret' = s_n + n
                   /\ s_err' = err
                   /\ UNCHANGED <<s_size, s_lim>>
              ELSE /\ s_size' = header.size
                   /\ s_lim' = header.size
                   /\ s_pc' = "discard"
                   /\ UNCHANGED <<s_ret, s_err>>
    /\ UNCHANGED <<fnVars, stream, totalSize, decVars, infoVars>>

\* a ReadThrough that returns the declared size, the header not counted
SkipDiscard_sizeOnly ==
    /\ s_pc = "discard"
    /\ LET avail == Avail(s_off, s_lim)
           nDiscarded == CopyNWritten(avail, s_size)
           err == CopyNErr(avail, s_size)
       IN  /\ s_n' = s_n + nDiscarded
           /\ s_off' = s_off + nDiscarded
           /\ s_lim' = LimitAfter(s_lim, nDiscarded)
           /\ s_ret' = nDiscarded
           /\ s_err' = err
           /\ s_pc' = "return"
    /\ UNCHANGED s_size
    /\ UNCHANGED <<fnVars, stream, totalSize, decVars, infoVars>>

\* ReadThrough, lines 31-38
SkipDiscard ==
    /\ s_pc = "discard"
    /\ LET avail == Avail(s_off, s_lim)
           nDiscarded == CopyNWritten(avail, s_size)
           err == CopyNErr(avail, s_size)
       IN  /\ s_n' = s_n + nDiscarded
           /\ s_off' = s_off + nDiscarded
           /\ s_lim' = LimitAfter(s_lim, nDiscarded)
           /\ s_ret' = s_n + nDiscarded
           /\ s_err' = err
           /\ s_pc' = "return"
    /\ UNCHANGED s_size
    /\ UNCHANGED <<fnVars, stream, totalSize, decVars, infoVars>>

(***************************************************************************)
(* MPEG frame header parser (mp3header).  A uint32 is kept as the pair     *)
(* <<high 16 bits, low 16 bits>>; the masks and shifts of the source are   *)
(* taken on the half that holds the field.                                 *)
(***************************************************************************)
Version2_5 == 0
VersionInvalid == 1
Version2 == 2
Version1 == 3

LayerInvalid == 0
Layer3 == 1
Layer2 == 2
Layer1 == 3

ChannelModeStereo == 0
ChannelModeJointStereo == 1
ChannelModeDualMono == 2
ChannelModeMono == 3

ErrFrameSync == "MP3 frame sync not found"
ErrInvalidVersion == "Invalid version"
ErrInvalidLayer == "Invalid layer"
ErrInvalidIndex == "Invalid index"

\* (headerBits & mpegFlagFrameSync) >> 21
FrameSyncBits(bits) == bits[1] \div 32

\* (headerBits & mpegFlagAudioVersion) >> 19
AudioVersionBits(bits) == (bits[1] \div 8) % 4

\* (headerBits & mpegFlagLayerDesc) >> 17
LayerBits(bits) == (bits[1] \div 2) % 4

\* a bitrate index shifted by 11, not 12
BitRateBits_wrongShift(bits) == (bits[2] \div 2048) % 16

\* (headerBits & mpegFlagBitRate) >> 12
BitRateBits(bits) == (bits[2] \div 4096) % 16

\* (headerBits & mpegFlagSampleFreq) >> 10
SampleFreqBits(bits) == (bits[2] \div 1024) % 4

\* (headerBits & mpegFlagChannelMode) >> 6
ChannelModeBits(bits) == (bits[2] \div 64) % 4

\* bitRateTopDict[version][layer], undefined keys are absent
bitRateTopDict(version, layer) ==
    IF version = Version1 THEN
        IF layer = Layer1 THEN <<0, 32, 64, 92, 128, 160, 192, 224, 256, 288, 320, 352, 384, 416, 448, -1>>
        ELSE IF layer = Layer2 THEN <<0, 32, 48, 56, 64, 80, 96, 112, 128, 160, 192, 224, 256, 320, 384, -1>>
        ELSE <<0, 32, 40, 48, 56, 64, 80, 96, 112, 128, 160, 176, 192, 224, 256, -1>>
    ELSE
        IF layer = Layer1 THEN <<0, 32, 48, 56, 64, 80, 96, 112, 128, 144, 160, 176, 192, 224, 256, -1>>
        ELSE IF layer = Layer2 THEN <<0, 8, 16, 24, 32, 40, 48, 56, 64, 80, 96, 112, 128, 144, 160, -1>>
        ELSE <<0, 8, 16, 24, 32, 40, 48, 56, 64, 80, 96, 112, 128, 144, 160, -1>>

sampleRateDict(version) ==
    IF version = Version1 THEN <<44100, 48000, 32000, -1>>
    ELSE IF version = Version2 THEN <<22050, 24000, 16000, -1>>
    ELSE <<11025, 12000, 8000, -1>>

\* a getBitRate without the mapping of version 2.5 to version 2
getBitRate_no25(version, layer, bitRateIndex) ==
    IF version \notin {Version1, Version2} THEN <<-1, ErrInvalidVersion>>
    ELSE IF layer \notin {Layer1, Layer2, Layer3} THEN <<-1, ErrInvalidLayer>>
    ELSE IF bitRateIndex > 16 THEN <<-1, ErrInvalidIndex>>
    ELSE <<bitRateTopDict(version, layer)[bitRateIndex + 1], NoErr>>

\* getBitRate: <<value, error>>
getBitRate(version, layer, bitRateIndex) ==
    LET v == IF version = Version2_5 THEN Version2 ELSE version
    IN  IF v \notin {Version1, Version2} THEN <<-1, ErrInvalidVersion>>
        ELSE IF layer \notin {Layer1, Layer2, Layer3} THEN <<-1, ErrInvalidLayer>>
        ELSE IF bitRateIndex > 16 THEN <<-1, ErrInvalidIndex>>
        ELSE <<bitRateTopDict(v, layer)[bitRateIndex + 1], NoErr>>

\* getSampleFreq: <<value, error>>
getSampleFreq(version, sampleRateIndex) ==
    IF version \notin {Version1, Version2, Version2_5} THEN <<-1, ErrInvalidVersion>>
    ELSE IF sampleRateIndex > 4 THEN <<-1, ErrInvalidIndex>>
    ELSE <<sampleRateDict(version)[sampleRateIndex + 1], NoErr>>

\* the MP3Header ParseMP3Header starts from
InitialMP3Header ==
    [AudioVersion |-> 15, Layer |-> 15, BitRate |-> -1, SampleFreq |-> -1,
     ChannelMode |-> 0]

\* the frame sync test of ParseMP3Header: TRUE when the word is rejected
FrameSyncMissing(bits) == FrameSyncBits(bits) = 0

\* a ParseMP3Header dropping the error of getBitRate
ParseMP3Header_ignoreBitRateErr(bits) ==
    LET h1 == [InitialMP3Header EXCEPT
                  !.AudioVersion = AudioVersionBits(bits),
                  !.Layer = LayerBits(bits),
                  !.ChannelMode = ChannelModeBits(bits)]
        br == getBitRate(h1.AudioVersion, h1.Layer, BitRateBits(bits))
        h2 == [h1 EXCEPT !.BitRate = br[1]]
        sf == getSampleFreq(h1.AudioVersion, SampleFreqBits(bits))
        h3 == [h2 EXCEPT !.SampleFreq = sf[1]]
    IN  IF FrameSyncMissing(bits) THEN [header |-> InitialMP3Header, err |-> ErrFrameSync]
        ELSE IF sf[2] # NoErr THEN [header |-> h2, err |-> sf[2]]
        ELSE [header |-> h3, err |-> NoErr]

\* ParseMP3Header: [header, err]
ParseMP3Header(bits) ==
    LET h1 == [InitialMP3Header EXCEPT
                  !.AudioVersion = AudioVersionBits(bits),
                  !.Layer = LayerBits(bits),
                  !.ChannelMode = ChannelModeBits(bits)]
        br == getBitRate(h1.AudioVersion, h1.Layer, BitRateBits(bits))
        h2 == [h1 EXCEPT !.BitRate = br[1]]
        sf == getSampleFreq(h1.AudioVersion, SampleFreqBits(bits))
        h3 == [h2 EXCEPT !.SampleFreq = sf[1]]
    IN  IF FrameSyncMissing(bits) THEN [header |-> InitialMP3Header, err |-> ErrFrameSync]
        ELSE IF br[2] # NoErr THEN [header |-> h1, err |-> br[2]]
        ELSE IF sf[2] # NoErr THEN [header |-> h2, err |-> sf[2]]
        ELSE [header |-> h3, err |-> NoErr]

(***************************************************************************)
(* Duration estimator (measure.go).                                        *)
(***************************************************************************)
Abs(a) == IF a < 0 THEN -a ELSE a

\* Go's integer division, truncating toward zero (b # 0)
GoDiv(a, b) ==
    IF (a < 0) = (b < 0) THEN Abs(a) \div Abs(b) ELSE -(Abs(a) \div Abs(b))

\* a divisor in bits, not bytes, per millisecond
DurationDivisor_bits(bitRate) == bitRate

\* the divisor of calculateDuration
DurationDivisor(bitRate) == GoDiv(bitRate, 8)

\* calculateDuration panics with "integer divide by zero"
DurationPanics(bitRate) == DurationDivisor(bitRate) = 0

\* the bytes calculateDuration takes off totalSize
TagBytesSubtracted(tagsz) == tagsz + 10

\* a calculateDuration doubling for every channel mode
calculateDuration_alwaysDouble(total, tagsz, header) ==
    GoDiv(total - TagBytesSubtracted(tagsz), DurationDivisor(header.BitRate)) * 1000000 * 2

\* calculateDuration: the duration in nanoseconds (DurationDivisor # 0)
calculateDuration(total, tagsz, header) ==
    LET d == GoDiv(total - TagBytesSubtracted(tagsz), DurationDivisor(header.BitRate)) * 1000000
    IN  IF header.ChannelMode = ChannelModeMono THEN d * 2 ELSE d

(***************************************************************************)
(* GetInfo                                                                 *)
(***************************************************************************)
\* a GetInfo going on to the header word whatever ReadThrough returned
InfoTag_ignoreErr ==
    /\ g_pc = "tag"
    /\ s_pc = "return"
    /\ tagSize' = s_ret
    /\ g_err' = s_err
    /\ g_pc' = "read"
    /\ UNCHANGED <<headerBits, mp3Header, duration>>
    /\ UNCHANGED <<fnVars, stream, totalSize, decVars, skipVars>>

\* GetInfo, lines 55-60: the result of skipReader.ReadThrough()
InfoTag ==
    /\ g_pc = "tag"
    /\ s_pc = "return"
    /\ tagSize' = s_ret
    /\ g_err' = s_err
    /\ g_pc' = IF s_err # NoErr THEN "return" ELSE "read"
    /\ UNCHANGED <<headerBits, mp3Header, duration>>
    /\ UNCHANGED <<fnVars, stream, totalSize, decVars, skipVars>>

\* GetInfo, lines 62-67: binary.Read of the header word from r
InfoRead ==
    /\ g_pc = "read"
    /\ LET avail == Avail(s_off, NoLimit)
           n == ReadFullN(avail, 4)
           err == ReadFullErr(avail, 4)
           b == Peek(s_off, NoLimit, 4)
       IN  /\ s_off' = s_off + n
           /\ g_err' = err
           /\ IF err # NoErr
              THEN /\ g_pc' = "return"
                   /\ UNCHANGED headerBits
              ELSE /\ headerBits' = <<Uint16BE(SubSeq(b, 1, 2)), Uint16BE(SubSeq(b, 3, 4))>>
                   /\ g_pc' = "parse"
    /\ UNCHANGED <<tagSize, mp3Header, duration>>
    /\ UNCHANGED <<s_pc, s_lim, s_n, s_size, s_ret, s_err>>
    /\ UNCHANGED <<fnVars, stream, totalSize, decVars>>

\* GetInfo, lines 69-71
InfoParse ==
    /\ g_pc = "parse"
    /\ LET r == ParseMP3Header(headerBits)
       IN  /\ mp3Header' = r.header
           /\ g_err' = r.err
           /\ g_pc' = IF r.err # NoErr THEN "return" ELSE "calc"
    /\ UNCHANGED <<tagSize, headerBits, duration>>
    /\ UNCHANGED <<fnVars, stream, totalSize, decVars, skipVars>>

\* GetInfo, lines 73-75, with calculateDuration
InfoCalc ==
    /\ g_pc = "calc"
    /\ IF DurationPanics(mp3Header.BitRate)
       THEN /\ g_pc' = "panic"
            /\ UNCHANGED duration
       ELSE /\ duration' = calculateDuration(totalSize, tagSize, mp3Header)
            /\ g_pc' = "return"
    /\ UNCHANGED <<tagSize, headerBits, mp3Header, g_err>>
    /\ UNCHANGED <<fnVars, stream, totalSize, decVars, skipVars>>

(***************************************************************************)
(* Inputs.                                                                 *)
(***************************************************************************)
BE32(v) == <<(v \div 16777216) % 256, (v \div 65536) % 256, (v \div 256) % 256, v % 256>>

BE16(v) == <<(v \div 256) % 256, v % 256>>

\* a tag header as it lies in a file: marker, version 3.0, flags, size
TagHeaderBytes(marker, size) == marker \o <<3, 0, 0>> \o encodeTagSize(size)

\* a frame as it lies in a file: header declaring size, then the data
FrameBytes(f) == f.id \o BE32(f.size) \o BE16(f.flags) \o f.data

idTIT2 == <<84, 73, 84, 50>>
idPRIV == <<80, 82, 73, 86>>
idBad == <<84, 105, 84, 50>>         \* "TiT2"
idNul == <<0, 73, 84, 50>>           \* "\0IT2"

\* valid frames without and with data, frames with an invalid ID, a frame
\* declaring two bytes and carrying none
TagItems ==
    {[id |-> idTIT2, size |-> k, flags |-> 0, data |-> Fill(k, 7)] : k \in {0, MaxData}}
    \cup {[id |-> idPRIV, size |-> 1, flags |-> 1, data |-> <<0>>]}
    \cup {[id |-> idBad, size |-> 1, flags |-> 0, data |-> <<7>>]}
    \cup {[id |-> idNul, size |-> 0, flags |-> 0, data |-> <<>>]}
    \cup {[id |-> idTIT2, size |-> 2, flags |-> 0, data |-> <<>>]}

TagLayouts == UNION {[1..k -> TagItems] : k \in 0..MaxFrames}

\* zero padding (none, less than a frame header, the longest), and padding
\* with a non-zero byte behind its first ten bytes
TagPads == {Zeros(p) : p \in {0, 1, MaxPad - 1, MaxPad}} \cup {Zeros(10) \o <<84>>}

LayoutBytes(layout) == Flatten([i \in 1..Len(layout) |-> FrameBytes(layout[i])])

\* a file: tag header declaring the length of frames and padding, the
\* frames, the padding, then audio bytes
TagFile(marker, layout, pad) ==
    TagHeaderBytes(marker, Len(LayoutBytes(layout)) + Len(pad))
        \o LayoutBytes(layout) \o pad \o Fill(MaxTrail, 255)

Prefixes(bs) == {SubSeq(bs, 1, k) : k \in 0..Len(bs)}

\* every file, whole or cut short at any byte
TagStreams ==
    UNION {Prefixes(TagFile(m, l, p)) : m \in {id3v2Flag}, l \in TagLayouts, p \in TagPads}
    \cup UNION {Prefixes(TagFile(idIE6, <<>>, p)) : p \in TagPads}

ZeroMP3Header ==
    [AudioVersion |-> 0, Layer |-> 0, BitRate |-> 0, SampleFreq |-> 0,
     ChannelMode |-> 0]

InitDecoder ==
    /\ d_pc = "Decode"
    /\ d_off = 0
    /\ d_lim = NoLimit
    /\ d_n = 0
    /\ d_size = 0
    /\ d_hdr = <<>>
    /\ d_tag = <<>>
    /\ d_ret = <<>>
    /\ d_err = NoErr
    /\ d_iter = 0

IdleDecoder ==
    /\ d_pc = "idle"
    /\ d_off = 0
    /\ d_lim = NoLimit
    /\ d_n = 0
    /\ d_size = 0
    /\ d_hdr = <<>>
    /\ d_tag = <<>>
    /\ d_ret = <<>>
    /\ d_err = NoErr
    /\ d_iter = 0

InitSkipReader ==
    /\ s_pc = "ReadThrough"
    /\ s_off = 0
    /\ s_lim = NoLimit
    /\ s_n = 0
    /\ s_size = 0
    /\ s_ret = 0
    /\ s_err = NoErr

IdleFn ==
    /\ fn_pc = "idle"
    /\ fn_in = 0
    /\ fn_out = <<>>

InitMetadata ==
    /\ tagSize = 0
    /\ headerBits = <<0, 0>>
    /\ mp3Header = ZeroMP3Header
    /\ duration = 0
    /\ g_err = NoErr

\* the tag readers: a Decoder and a SkipReader, each with its own reader
\* over the same bytes
Init ==
    /\ stream \in TagStreams
    /\ totalSize = Len(stream)
    /\ InitDecoder
    /\ InitSkipReader
    /\ g_pc = "idle"
    /\ InitMetadata
    /\ IdleFn

Next ==
    \/ DecodeHeader
    \/ ReadFrameHeader
    \/ ReadFrameData
    \/ DiscardPadding
    \/ SkipHeader
    \/ SkipDiscard

Spec == Init /\ [][Next]_vars

(***************************************************************************)
(* GetInfo on a tag followed by a header word.                             *)
(***************************************************************************)
\* the 32 bits of a header word from its fields (the other bits are 0)
HeaderWord(sync, version, layer, bitRateIndex, sampleFreqIndex, channelMode) ==
    << sync * 32 + version * 8 + layer * 2,
       bitRateIndex * 4096 + sampleFreqIndex * 1024 + channelMode * 64 >>

WordBytes(w) == BE16(w[1]) \o BE16(w[2])

\* frame sync fields: all ones, none, all but the first, only the first
SyncSamples == {2047, 0, 1023, 1024}

InfoWords ==
    {HeaderWord(sy, v, l, b, 0, c) :
        sy \in {2047, 0}, v \in 0..3, l \in 0..3, b \in 0..15, c \in 0..3}

InfoFile(marker, size, w) ==
    TagHeaderBytes(marker, size) \o Fill(size, 7) \o WordBytes(w) \o <<255>>

InfoStreams ==
    UNION {Prefixes(InfoFile(id3v2Flag, sz, HeaderWord(2047, Version1, Layer3, 9, 0, 0))) :
              sz \in 0..MaxInfoTag}
    \cup {InfoFile(id3v2Flag, sz, w) : sz \in 0..MaxInfoTag, w \in InfoWords}
    \cup {InfoFile(idIE6, 0, HeaderWord(2047, Version1, Layer3, 9, 0, 0))}

TotalSizes == {0, 100, MaxTotal}

InitInfo ==
    /\ stream \in InfoStreams
    /\ totalSize \in TotalSizes
    /\ IdleDecoder
    /\ InitSkipReader
    /\ g_pc = "tag"
    /\ InitMetadata
    /\ IdleFn

NextInfo ==
    \/ SkipHeader
    \/ SkipDiscard
    \/ InfoTag
    \/ InfoRead
    \/ InfoParse
    \/ InfoCalc

SpecInfo == InitInfo /\ [][NextInfo]_vars

(***************************************************************************)
(* The header parser on every sampled word.                                *)
(***************************************************************************)
\* the bits of a header word outside the fields above: protection (16),
\* padding (9), private (8), mode extension, copyright, original, emphasis
OtherBits == <<1, 831>>

\* every field value, with the other bits all clear or all set
ParseWords ==
    {<<w[1] + o[1], w[2] + o[2]>> :
        w \in {HeaderWord(sy, v, l, b, sf, c) :
                  sy \in SyncSamples, v \in 0..3, l \in 0..3, b \in 0..15,
                  sf \in 0..3, c \in 0..3},
        o \in {<<0, 0>>, OtherBits}}

InitParse ==
    /\ stream = <<>>
    /\ totalSize = 0
    /\ IdleDecoder
    /\ s_pc = "return"
    /\ s_off = 0
    /\ s_lim = NoLimit
    /\ s_n = 0
    /\ s_size = 0
    /\ s_ret = 0
    /\ s_err = NoErr
    /\ g_pc = "parse"
    /\ tagSize = 0
    /\ headerBits \in ParseWords
    /\ mp3Header = ZeroMP3Header
    /\ duration = 0
    /\ g_err = NoErr
    /\ IdleFn

NextParse == InfoParse

SpecParse == InitParse /\ [][NextParse]_vars

(***************************************************************************)
(* encodeTagSize, then decodeTagSize, on sampled sizes.                    *)
(***************************************************************************)
\* the largest size of 28 bits
MaxTagSize == 268435455

\* sizes of more than 28 bits: 2^28, 2^28 + 1, 2^28 + 127, 2^29 - 1, 2^31 - 1
OverflowSizes == {268435456, 268435457, 268435583, 536870911, 2147483647}

\* the small sizes, the sizes around each 7-bit place, the largest size
TagSizes ==
    (0..MaxSize)
    \cup {p + k : p \in {16384, 2097152}, k \in {-1, 0, 1}}
    \cup {MaxTagSize - 1, MaxTagSize}
    \cup OverflowSizes

InitSize ==
    /\ stream = <<>>
    /\ totalSize = 0
    /\ IdleDecoder
    /\ InitSkipReader
    /\ g_pc = "idle"
    /\ InitMetadata
    /\ fn_pc = "encode"
    /\ fn_in \in TagSizes
    /\ fn_out = <<>>

\* data := encodeTagSize(size)
EncodeSize ==
    /\ fn_pc = "encode"
    /\ fn_out' = <<encodeTagSize(fn_in)>>
    /\ fn_pc' = "decode"
    /\ UNCHANGED <<fn_in, stream, totalSize, decVars, skipVars, infoVars>>

\* size := decodeTagSize(data)
DecodeSize ==
    /\ fn_pc = "decode"
    /\ fn_out' = <<fn_out[1], decodeTagSize(fn_out[1])>>
    /\ fn_pc' = "done"
    /\ UNCHANGED <<fn_in, stream, totalSize, decVars, skipVars, infoVars>>

NextSize ==
    \/ EncodeSize
    \/ DecodeSize

SpecSize == InitSize /\ [][NextSize]_vars

(***************************************************************************)
(* Decode on a tag holding the bytes of one Frame.                         *)
(***************************************************************************)
\* Frame.Bytes: ID, big-endian int32 length of Data, big-endian Flags, Data
Bytes(frame) ==
    frame.ID \o BE32(Len(frame.Data)) \o BE16(frame.Flags) \o frame.Data

idAZ09 == <<65, 90, 48, 57>>         \* "AZ09"

FrameIDs == {idTIT2, idPRIV, idAZ09}

FrameFlags == {0, 1, 127, 256, 65535}

DataBytes == {0, 84, 255}

FrameDatas == UNION {[1..k -> DataBytes] : k \in 0..MaxData}

Frames == [ID : FrameIDs, Flags : FrameFlags, Data : FrameDatas]

InitFrame ==
    /\ fn_pc = "frame"
    /\ fn_in \in Frames
    /\ fn_out = <<>>
    /\ stream = TagHeaderBytes(id3v2Flag, Len(Bytes(fn_in))) \o Bytes(fn_in)
    /\ totalSize = Len(stream)
    /\ InitDecoder
    /\ InitSkipReader
    /\ g_pc = "idle"
    /\ InitMetadata

NextFrame ==
    \/ DecodeHeader
    \/ ReadFrameHeader
    \/ ReadFrameData
    \/ DiscardPadding

SpecFrame == InitFrame /\ [][NextFrame]_vars

(***************************************************************************)
(* Decode up to the frame header, on frame headers declaring any size.     *)
(***************************************************************************)
\* binary.BigEndian.Uint32(header[4:8]) as <<high 16 bits, low 16 bits>>
frameSizeWord(header) ==
    <<Uint16BE(SubSeq(header, 5, 6)), Uint16BE(SubSeq(header, 7, 8))>>

SizeBytes == {0, 1, 127, 128, 255}

\* a tag of one frame header, its four size bytes drawn freely
SizeFieldStreams ==
    {TagHeaderBytes(id3v2Flag, 10) \o idTIT2 \o sz \o <<0, 0>> : sz \in [1..4 -> SizeBytes]}

InitSizeField ==
    /\ stream \in SizeFieldStreams
    /\ totalSize = Len(stream)
    /\ InitDecoder
    /\ InitSkipReader
    /\ g_pc = "idle"
    /\ InitMetadata
    /\ IdleFn

\* Decode as far as readFrame's read of the frame header
NextSizeField ==
    \/ DecodeHeader
    \/ ReadFrameHeader

SpecSizeField == InitSizeField /\ [][NextSizeField]_vars

(***************************************************************************)
(* Decode run to its return                                                *)
(***************************************************************************)
\* frames that go on behind the region the tag header declares
OverrunFrames ==
    {[id |-> idTIT2, size |-> 0, flags |-> 0, data |-> <<>>],
     [id |-> idPRIV, size |-> 1, flags |-> 1, data |-> <<0>>]}

OverrunSizes == {0, 5, 10, 25}

\* a tag header declaring less than the frames that follow it
OverrunStreams ==
    {TagHeaderBytes(id3v2Flag, s)
         \o Flatten([i \in 1..(MaxFrames + 2) |-> FrameBytes(f)]) :
             s \in OverrunSizes, f \in OverrunFrames}

DecodeStreams == TagStreams \cup OverrunStreams

InitDecode ==
    /\ stream \in DecodeStreams
    /\ totalSize = Len(stream)
    /\ InitDecoder
    /\ s_pc = "idle"
    /\ s_off = 0
    /\ s_lim = NoLimit
    /\ s_n = 0
    /\ s_size = 0
    /\ s_ret = 0
    /\ s_err = NoErr
    /\ g_pc = "idle"
    /\ InitMetadata
    /\ IdleFn

\* the statements of one call of Decode
NextDecode ==
    \/ DecodeHeader
    \/ ReadFrameHeader
    \/ ReadFrameData
    \/ DiscardPadding

\* Decode is sequential code over a reader whose reads return: a statement
\* that can run does run
SpecDecode == InitDecode /\ [][NextDecode]_vars /\ WF_vars(NextDecode)

(***************************************************************************)
(* Frame.SetText and Frame.Text (frame.go).  A Go string is its sequence   *)
(* of bytes; runes are code points.                                        *)
(***************************************************************************)
textEncodingLatin1 == 0
textEncodingUTF16 == 1

RuneError == 65533                   \* U+FFFD

ErrNoText == "Frame does not accept text content"
ErrUndefinedEncoding == "unable to decode string"
ErrUTF16Payload == "invalid UTF-16 payload"
ErrUTF16MissingBOM == "invalid UTF-16 payload (missing BOM)"

IsSurrogate(r) == r >= 55296 /\ r <= 57343

IsCont(b) == b >= 128 /\ b <= 191

\* string(rune): the UTF-8 bytes of a code point
Utf8Bytes(r) ==
    IF r < 0 \/ r > 1114111 \/ IsSurrogate(r) THEN <<239, 191, 189>>
    ELSE IF r < 128 THEN <<r>>
    ELSE IF r < 2048 THEN <<192 + (r \div 64), 128 + (r % 64)>>
    ELSE IF r < 65536
    THEN <<224 + (r \div 4096), 128 + ((r \div 64) % 64), 128 + (r % 64)>>
    ELSE <<240 + (r \div 262144), 128 + ((r \div 4096) % 64),
           128 + ((r \div 64) % 64), 128 + (r % 64)>>

\* string([]rune)
Utf8String(runes) == Flatten([i \in 1..Len(runes) |-> Utf8Bytes(runes[i])])

\* utf8.DecodeRuneInString at byte i: <<rune, width>>; RuneError and width 1
\* for an invalid or cut encoding
DecodeRune(str, i) ==
    LET n == Len(str) - i + 1
        b0 == str[i]
        b1 == str[i + 1]
        b2 == str[i + 2]
        b3 == str[i + 3]
        lo1 == IF b0 = 224 THEN 160 ELSE IF b0 = 240 THEN 144 ELSE 128
        hi1 == IF b0 = 237 THEN 159 ELSE IF b0 = 244 THEN 143 ELSE 191
    IN  IF b0 < 128 THEN <<b0, 1>>
        ELSE IF b0 >= 194 /\ b0 <= 223 THEN
            IF n >= 2 /\ IsCont(b1) THEN <<(b0 - 192) * 64 + (b1 - 128), 2>>
            ELSE <<RuneError, 1>>
        ELSE IF b0 >= 224 /\ b0 <= 239 THEN
            IF n >= 3 /\ b1 >= lo1 /\ b1 <= hi1 /\ IsCont(b2)
            THEN <<(b0 - 224) * 4096 + (b1 - 128) * 64 + (b2 - 128), 3>>
            ELSE <<RuneError, 1>>
        ELSE IF b0 >= 240 /\ b0 <= 244 THEN
            IF n >= 4 /\ b1 >= lo1 /\ b1 <= hi1 /\ IsCont(b2) /\ IsCont(b3)
            THEN <<(b0 - 240) * 262144 + (b1 - 128) * 4096 + (b2 - 128) * 64 + (b3 - 128), 4>>
            ELSE <<RuneError, 1>>
        ELSE <<RuneError, 1>>

\* []rune(str), and the runes of `range str`
RECURSIVE RunesFrom(_, _)
RunesFrom(str, i) ==
    IF i > Len(str) THEN <<>>
    ELSE LET d == DecodeRune(str, i) IN <<d[1]>> \o RunesFrom(str, i + d[2])

Runes(str) == RunesFrom(str, 1)

\* utf16.Encode
EncodeUnits(r) ==
    IF r < 0 \/ r > 1114111 \/ IsSurrogate(r) THEN <<RuneError>>
    ELSE IF r < 65536 THEN <<r>>
    ELSE <<55296 + ((r - 65536) \div 1024), 56320 + ((r - 65536) % 1024)>>

Utf16Encode(runes) == Flatten([i \in 1..Len(runes) |-> EncodeUnits(runes[i])])

\* utf16.Decode
RECURSIVE Utf16DecodeFrom(_, _)
Utf16DecodeFrom(u, i) ==
    IF i > Len(u) THEN <<>>
    ELSE IF ~IsSurrogate(u[i]) THEN <<u[i]>> \o Utf16DecodeFrom(u, i + 1)
    ELSE IF u[i] < 56320 /\ i < Len(u) /\ u[i + 1] >= 56320 /\ u[i + 1] <= 57343
         THEN <<65536 + (u[i] - 55296) * 1024 + (u[i + 1] - 56320)>>
                  \o Utf16DecodeFrom(u, i + 2)
    ELSE <<RuneError>> \o Utf16DecodeFrom(u, i + 1)

Utf16Decode(u) == Utf16DecodeFrom(u, 1)

\* binary.Write(buf, binary.BigEndian, []uint16)
UnitsBE(u) == Flatten([i \in 1..Len(u) |-> <<u[i] \div 256, u[i] % 256>>])

\* binary.Read(reader, order, buf16Bit) into len(buf)/2 units
ReadUnitsBE(buf) == [i \in 1..(Len(buf) \div 2) |-> buf[2 * i - 1] * 256 + buf[2 * i]]

ReadUnitsLE(buf) == [i \in 1..(Len(buf) \div 2) |-> buf[2 * i] * 256 + buf[2 * i - 1]]

\* the terminus of decodeLatin1Text and decodeUTF16String: the index (from 0)
\* of the first zero element, and 0 when there is none
Terminus(s) ==
    IF \E i \in 1..Len(s) : s[i] = 0
    THEN (CHOOSE i \in 1..Len(s) : s[i] = 0 /\ \A j \in 1..(i - 1) : s[j] # 0) - 1
    ELSE 0

\* Frame.hasText
hasText(frame) == frame.ID[1] = 84 \/ frame.ID[1] = 87

\* isLatin1Compatible
isLatin1Compatible(str) ==
    LET rs == Runes(str) IN \A i \in 1..Len(rs) : ~(rs[i] < 32 \/ rs[i] > 127)

\* decodeLatin1Text: string(data[:terminus])
decodeLatin1Text(data) == SubSeq(data, 1, Terminus(data))

\* decodeUTF16String: text, error, and whether utf8[1:] panics
decodeUTF16String(buf) ==
    IF Len(buf) < 2
    THEN [text |-> <<>>, err |-> ErrUTF16Payload, panics |-> FALSE]
    ELSE IF ~(buf[1] = 254 /\ buf[2] = 255) /\ ~(buf[1] = 255 /\ buf[2] = 254)
    THEN [text |-> <<>>, err |-> ErrUTF16MissingBOM, panics |-> FALSE]
    ELSE LET buf16Bit == IF buf[1] = 254 THEN ReadUnitsBE(buf) ELSE ReadUnitsLE(buf)
             utf8 == Utf16Decode(SubSeq(buf16Bit, 1, Terminus(buf16Bit)))
         IN  IF Len(utf8) < 1
             THEN [text |-> <<>>, err |-> NoErr, panics |-> TRUE]
             ELSE [text |-> Utf8String(Tail(utf8)), err |-> NoErr, panics |-> FALSE]

\* an encoding without the byte-order mark
encodeUTF16String_noBOM(str) == UnitsBE(Utf16Encode(Runes(str)))

\* encodeUTF16String: the BOM FE FF, then the units big-endian
encodeUTF16String(str) == <<254, 255>> \o UnitsBE(Utf16Encode(Runes(str)))

\* the Data SetText builds for str
TextData(str) ==
    IF isLatin1Compatible(str)
    THEN <<textEncodingLatin1>> \o str \o <<0>>
    ELSE <<textEncodingUTF16>> \o encodeUTF16String(str) \o <<0, 0>>

\* frame.SetText(fn_in.str) on the frame held in fn_out
SetText ==
    /\ fn_pc = "SetText"
    /\ IF ~hasText(fn_out.frame)
       THEN /\ fn_out' = [fn_out EXCEPT !.err = ErrNoText]
            /\ fn_pc' = "return"
       ELSE /\ fn_out' = [fn_out EXCEPT !.frame.Data = TextData(fn_in.str)]
            /\ fn_pc' = "Text"
    /\ UNCHANGED <<fn_in, stream, totalSize, decVars, skipVars, infoVars>>

\* frame.Text() on the frame held in fn_out
Text ==
    /\ fn_pc = "Text"
    /\ LET frame == fn_out.frame
           u == decodeUTF16String(Tail(frame.Data))
       IN  IF ~hasText(frame)
           THEN /\ fn_out' = [fn_out EXCEPT !.text = <<>>, !.err = ErrNoText]
                /\ fn_pc' = "return"
           ELSE IF Len(frame.Data) = 0
           THEN /\ fn_pc' = "panic"
                /\ UNCHANGED fn_out
           ELSE IF frame.Data[1] = textEncodingLatin1
           THEN /\ fn_out' = [fn_out EXCEPT !.text = decodeLatin1Text(Tail(frame.Data)),
                                            !.err = NoErr]
                /\ fn_pc' = "return"
           ELSE IF frame.Data[1] = textEncodingUTF16
           THEN IF u.panics
                THEN /\ fn_pc' = "panic"
                     /\ UNCHANGED fn_out
                ELSE /\ fn_out' = [fn_out EXCEPT !.text = u.text, !.err = u.err]
                     /\ fn_pc' = "return"
           ELSE /\ fn_out' = [fn_out EXCEPT !.text = <<>>, !.err = ErrUndefinedEncoding]
                /\ fn_pc' = "return"
    /\ UNCHANGED <<fn_in, stream, totalSize, decVars, skipVars, infoVars>>

idWOAR == <<87, 79, 65, 82>>         \* "WOAR"

\* U+0000, tab, space, A, DEL, U+0080, e acute, U+4E16, U+1F600
TextRunes == {0, 9, 32, 65, 127, 128, 233, 19990, 128512}

\* the valid strings of up to MaxText runes, a lone byte FF, a cut sequence
Strings ==
    {Utf8String(rs) : rs \in UNION {[1..k -> TextRunes] : k \in 0..MaxText}}
    \cup {<<255>>, <<65, 195>>}

PayloadBytes == {0, 65, 254, 255}

\* frame data: none, or an encoding flag and a payload
RawDatas ==
    {<<>>}
    \cup {<<f>> \o p : f \in {textEncodingLatin1, textEncodingUTF16, 2},
                      p \in UNION {[1..k -> PayloadBytes] : k \in 0..MaxPayload}}

InitText ==
    /\ stream = <<>>
    /\ totalSize = 0
    /\ IdleDecoder
    /\ InitSkipReader
    /\ g_pc = "idle"
    /\ InitMetadata
    /\ fn_in \in
           [op : {"SetText"}, str : Strings,
            frame : [ID : {idTIT2, idWOAR, idPRIV}, Flags : {0}, Data : {<<>>}]]
           \cup [op : {"Text"}, str : {<<>>},
                 frame : [ID : {idTIT2}, Flags : {0}, Data : RawDatas]]
           \cup [op : {"Text"}, str : {<<>>},
                 frame : [ID : {idWOAR, idPRIV}, Flags : {0},
                          Data : {<<>>, <<0, 65, 0>>, <<222, 173, 190, 239>>}]]
    /\ fn_pc = fn_in.op
    /\ fn_out = [frame |-> fn_in.frame, text |-> <<>>, err |-> NoErr]

NextText ==
    \/ SetText
    \/ Text

SpecText == InitText /\ [][NextText]_vars

(***************************************************************************)
(* Properties of the tag readers (specification Spec).                     *)
(***************************************************************************)
\* the size the tag header of the stream declares (streams of 10 bytes or more)
DeclaredSize == decodeTagSize(SubSeq(stream, 7, 10))

HasTagHeader == Len(stream) >= 10 /\ SubSeq(stream, 1, 3) = id3v2Flag

DecodeReturned == d_pc = "return"
DecodeSucceeded == d_pc = "return" /\ d_err = NoErr
ReadThroughReturned == s_pc = "return"
ReadThroughSucceeded == s_pc = "return" /\ s_err = NoErr

\* Frame.ByteSize
ByteSize(frame) == Len(frame.Data) + 10

SumByteSize(frames) == SumSeq([i \in 1..Len(frames) |-> ByteSize(frames[i])])

\* C1: a successful Decode, and a successful ReadThrough, has consumed
\* exactly 10 + size bytes of the stream, and reports that count.
C1_ConsumedIsHeaderPlusSize ==
    /\ DecodeSucceeded => d_off = 10 + DeclaredSize /\ d_n = 10 + DeclaredSize
    /\ ReadThroughSucceeded => s_off = 10 + DeclaredSize /\ s_ret = 10 + DeclaredSize

C1_Witness ==
    /\ DecodeSucceeded
    /\ ReadThroughSucceeded
    /\ Len(d_ret[1].Frames) > 0
    /\ d_ret[1].PaddingSize > 0
    /\ Len(stream) > 10 + DeclaredSize

\* C2: once the tag header is read, the bytes consumed from the stream never
\* exceed 10 + size, whatever the region holds and whatever follows it.
C2_NeverPastTagRegion ==
    /\ (d_off >= 10 /\ HasTagHeader) => d_off <= 10 + DeclaredSize
    /\ (s_off >= 10 /\ HasTagHeader) => s_off <= 10 + DeclaredSize

\* a frame header declaring more payload than the region has left, with
\* data behind the region
C2_Witness ==
    /\ DecodeReturned
    /\ d_err = ErrReadFrameFailed
    /\ Len(d_hdr) = 10
    /\ ValidID(SubSeq(d_hdr, 1, 4))
    /\ d_off = 10 + DeclaredSize
    /\ Len(stream) > 10 + DeclaredSize
    /\ s_off = 10 + DeclaredSize

\* C3: after a successful Decode the byte sizes of the frames plus
\* PaddingSize add up to the declared size.
C3_FramesPlusPaddingIsSize ==
    DecodeSucceeded =>
        SumByteSize(d_ret[1].Frames) + d_ret[1].PaddingSize = DeclaredSize

\* the tag region of a complete stream
Region == SubSeq(stream, 11, 10 + DeclaredSize)

\* the region is k >= 0 valid frames followed by p >= 0 zero bytes
RECURSIVE WellFormedRegion(_)
WellFormedRegion(r) ==
    IF AllZero(r) THEN TRUE
    ELSE /\ Len(r) >= 10
         /\ ValidID(SubSeq(r, 1, 4))
         /\ 10 + Uint32BE(SubSeq(r, 5, 8)) <= Len(r)
         /\ WellFormedRegion(SubSeq(r, 11 + Uint32BE(SubSeq(r, 5, 8)), Len(r)))

\* the frames of a well-formed region, in stream order
RECURSIVE RegionFrames(_)
RegionFrames(r) ==
    IF AllZero(r) THEN <<>>
    ELSE LET size == Uint32BE(SubSeq(r, 5, 8))
         IN  << [ID |-> SubSeq(r, 1, 4),
                 Flags |-> Uint16BE(SubSeq(r, 9, 10)),
                 Data |-> SubSeq(r, 11, 10 + size)] >>
             \o RegionFrames(SubSeq(r, 11 + size, Len(r)))

WellFormedTag ==
    /\ HasTagHeader
    /\ Len(stream) >= 10 + DeclaredSize
    /\ WellFormedRegion(Region)

\* C4: on a well-formed tag, with any length of padding, Decode succeeds and
\* returns exactly the frames of the region in stream order.
C4_WellFormedDecodes ==
    (DecodeReturned /\ WellFormedTag) =>
        /\ d_err = NoErr
        /\ d_ret # <<>>
        /\ d_ret[1].Frames = RegionFrames(Region)

\* the stream ends before 10 + size bytes
Truncated == Len(stream) < 10 \/ Len(stream) < 10 + DeclaredSize

\* C5: on a stream that ends before 10 + size bytes Decode returns an error
\* and a nil Tag.
C5_TruncatedFails ==
    (DecodeReturned /\ Truncated) => d_err # NoErr /\ d_ret = <<>>

\* cut inside the padding, after a frame was read
C5_Witness ==
    /\ DecodeReturned
    /\ Truncated
    /\ d_err = EOF
    /\ d_tag # <<>>
    /\ Len(d_tag[1].Frames) > 0
    /\ d_tag[1].PaddingSize > 0
    /\ d_off > 10

\* C6: on a 10-byte header not starting with "ID3" Decode returns an error,
\* a nil Tag and no frames, having consumed exactly the 10 header bytes.
C6_BadMarkerFails ==
    (Len(stream) >= 10 /\ SubSeq(stream, 1, 3) # id3v2Flag /\ d_pc # "Decode") =>
        /\ d_pc = "return"
        /\ d_err # NoErr
        /\ d_ret = <<>>
        /\ d_tag = <<>>
        /\ d_off = 10
        /\ d_n = 10

C6_Witness ==
    /\ DecodeReturned
    /\ Len(stream) > 10
    /\ SubSeq(stream, 1, 3) = idIE6
    /\ d_err = ErrInvalidID3

\* the decoder stands before a complete frame header
NextFrameHeader == Peek(d_off, d_lim, 10)

AtInvalidID ==
    /\ d_pc = "readFrame"
    /\ Len(NextFrameHeader) = 10
    /\ ~AllZero(NextFrameHeader)
    /\ \E i \in 1..4 : ~((65 <= NextFrameHeader[i] /\ NextFrameHeader[i] <= 90)
                          \/ (48 <= NextFrameHeader[i] /\ NextFrameHeader[i] <= 57))

\* C7: a frame header that is not all zero and has an ID byte outside 'A'-'Z',
\* '0'-'9' makes readFrame fail without reading the payload, and Decode
\* return an error and a nil Tag.
C7_InvalidIDAborts ==
    [][(AtInvalidID /\ decVars' # decVars) =>
          /\ d_pc' = "return"
          /\ d_err' # NoErr
          /\ d_ret' = <<>>
          /\ d_off' = d_off + 10
          /\ d_n' = d_n + 10]_vars

\* the invalid header came after a frame that was already collected
C7_Witness ==
    /\ DecodeReturned
    /\ Len(d_hdr) = 10
    /\ ~AllZero(d_hdr)
    /\ SubSeq(d_hdr, 1, 4) = idBad
    /\ d_tag # <<>>
    /\ Len(d_tag[1].Frames) > 0
    /\ d_ret = <<>>
    /\ d_err # NoErr

AtZeroHeader ==
    /\ d_pc = "readFrame"
    /\ Len(NextFrameHeader) = 10
    /\ AllZero(NextFrameHeader)

\* C8: an all-zero frame header costs exactly 10 bytes and yields no frame and
\* no error; after it no frame is read, the rest is only discarded.
C8_ZeroHeaderStopsFrames ==
    [][/\ (AtZeroHeader /\ decVars' # decVars) =>
              /\ d_pc' = "discard"
              /\ d_off' = d_off + 10
              /\ d_n' = d_n + 10
              /\ d_tag' = d_tag
              /\ d_err' = NoErr
       /\ (d_pc = "discard" /\ decVars' # decVars) =>
              /\ d_pc' = "return"
              /\ d_iter' = d_iter
              /\ d_tag'[1].Frames = d_tag[1].Frames]_vars

\* the region holds a non-zero byte behind the all-zero header
C8_Witness ==
    /\ DecodeSucceeded
    /\ Len(d_hdr) = 10
    /\ AllZero(d_hdr)
    /\ Len(d_ret[1].Frames) > 0
    /\ stream[10 + DeclaredSize] = 84
    /\ d_ret[1].PaddingSize = 1

(***************************************************************************)
(* Properties of GetInfo (SpecInfo) and of the parser (SpecParse).         *)
(***************************************************************************)
\* C9: with a resolved bitrate of 0 or below the estimation fails with an
\* error value and never divides by zero.
C9_BadBitRateFails ==
    /\ g_pc # "panic"
    /\ (g_pc = "return" /\ mp3Header.BitRate <= 0) => g_err # NoErr

\* C10: the parse fails if and only if the top 11 bits of the word are not
\* all ones.
C10_ParseFailsIffNoSync ==
    (g_pc # "parse") => ((g_err # NoErr) <=> (FrameSyncBits(headerBits) # 2047))

\* GetInfo returned a duration
InfoSucceeded == g_pc = "return" /\ g_err = NoErr

\* the bytes calculateDuration divides: totalSize less what it subtracts
AudioBytes == totalSize - TagBytesSubtracted(tagSize)

\* C11: the byte count the estimator subtracts from totalSize is the number
\* of tag bytes consumed from the stream, 10 + declared size, the header
\* counted once.
C11_SubtractsConsumedBytes ==
    InfoSucceeded =>
        /\ s_ret = 10 + DeclaredSize
        /\ TagBytesSubtracted(tagSize) = s_ret

\* C12 as stated: for a non-mono header with bitrate B > 0 and A >= 0 audio
\* bytes the duration is A*8000/B microseconds, no coarser truncation.
C12_MicrosecondPrecision ==
    (/\ InfoSucceeded
     /\ mp3Header.ChannelMode # ChannelModeMono
     /\ mp3Header.BitRate > 0
     /\ AudioBytes >= 0)
        => duration = ((AudioBytes * 8000) \div mp3Header.BitRate) * 1000

\* C12 amended: for a non-mono header with bitrate B > 0 and A >= 0 bytes
\* left after the subtraction, the duration is a whole number of
\* milliseconds, the integer quotient of A by the integer quotient B/8.
C12_MillisecondQuotient ==
    (/\ InfoSucceeded
     /\ mp3Header.ChannelMode # ChannelModeMono
     /\ mp3Header.BitRate > 0
     /\ AudioBytes >= 0)
        => duration = (AudioBytes \div (mp3Header.BitRate \div 8)) * 1000000

\* a stereo estimate whose byte count is no multiple of the bytes per
\* millisecond
C12_Witness ==
    /\ InfoSucceeded
    /\ mp3Header.ChannelMode = ChannelModeStereo
    /\ mp3Header.BitRate = 128
    /\ AudioBytes > 0
    /\ AudioBytes % 16 # 0
    /\ duration > 0

\* the duration calculateDuration gives the state's sizes and bitrate under
\* channel mode m
DurationOfMode(m) ==
    calculateDuration(totalSize, tagSize, [mp3Header EXCEPT !.ChannelMode = m])

\* C13: for fixed totalSize, tag size and bitrate the duration for mono is
\* twice the duration for stereo, joint stereo and dual mono, and those
\* three are equal.
C13_MonoIsTwice ==
    InfoSucceeded =>
        /\ duration = DurationOfMode(mp3Header.ChannelMode)
        /\ DurationOfMode(ChannelModeJointStereo) = DurationOfMode(ChannelModeStereo)
        /\ DurationOfMode(ChannelModeDualMono) = DurationOfMode(ChannelModeStereo)
        /\ DurationOfMode(ChannelModeMono) = 2 * DurationOfMode(ChannelModeStereo)
        /\ (mp3Header.ChannelMode = ChannelModeMono) =>
               duration = 2 * (GoDiv(AudioBytes, mp3Header.BitRate \div 8) * 1000000)
        /\ (mp3Header.ChannelMode # ChannelModeMono) =>
               duration = GoDiv(AudioBytes, mp3Header.BitRate \div 8) * 1000000

\* a mono estimate that is not zero
C13_Witness ==
    /\ InfoSucceeded
    /\ mp3Header.ChannelMode = ChannelModeMono
    /\ duration > 0

\* C14: GetInfo consumes the tag, then reads 4 bytes, then parses, then
\* computes.  On success 10 + size + 4 bytes are consumed and the header word
\* is the big-endian value of the bytes at offsets 10+size .. 10+size+3;
\* when the tag step fails no further byte is read; when the read or the
\* parse fails no duration is computed.
C14_TagThenWordThenDuration ==
    /\ (g_pc \in {"read", "parse", "calc"}) => (s_pc = "return" /\ s_err = NoErr)
    /\ (g_pc \in {"tag", "read"}) => (s_off = s_n /\ headerBits = <<0, 0>>)
    /\ (g_pc \in {"tag", "read", "parse"}) => mp3Header = ZeroMP3Header
    /\ (g_pc # "return" \/ g_err # NoErr) => duration = 0
    /\ (g_pc = "return" /\ s_err # NoErr) =>
           /\ g_err = s_err
           /\ s_off = s_n
           /\ headerBits = <<0, 0>>
           /\ mp3Header = ZeroMP3Header
    /\ (g_pc \in {"parse", "calc"} \/ InfoSucceeded) =>
           /\ s_off = 10 + DeclaredSize + 4
           /\ headerBits =
                  << stream[11 + DeclaredSize] * 256 + stream[12 + DeclaredSize],
                     stream[13 + DeclaredSize] * 256 + stream[14 + DeclaredSize] >>

\* an estimate behind a tag that is not empty
C14_Witness ==
    /\ InfoSucceeded
    /\ DeclaredSize > 0
    /\ s_off = 10 + DeclaredSize + 4
    /\ duration > 0

(***************************************************************************)
(* Properties of the header fields (SpecParse).                            *)
(***************************************************************************)
\* bit k of the header word, bit 0 the least significant
Bit(w, k) ==
    IF k >= 16 THEN (w[1] \div (2 ^ (k - 16))) % 2 ELSE (w[2] \div (2 ^ k)) % 2

\* the value of bits hi .. lo of the header word
BitField(w, hi, lo) ==
    LET RECURSIVE val(_)
        val(k) == IF k < lo THEN 0 ELSE Bit(w, k) * (2 ^ (k - lo)) + val(k - 1)
    IN  val(hi)

\* the frame sync, bits 31-21, is all ones
ValidSync == BitField(headerBits, 31, 21) = 2047

\* ParseMP3Header has returned
Parsed == g_pc # "parse"

\* C15: for a word with valid frame sync the parsed version is bits 20-19,
\* the layer bits 18-17, the bitrate index bits 15-12, the sample rate index
\* bits 11-10 and the channel mode bits 7-6; version 11, layer 01, bitrate
\* index 9 and sample rate index 0 give 128 kbps and 44100 Hz.
C15_FieldsFromBits ==
    (Parsed /\ ValidSync) =>
        /\ mp3Header.AudioVersion = BitField(headerBits, 20, 19)
        /\ mp3Header.Layer = BitField(headerBits, 18, 17)
        /\ mp3Header.ChannelMode = BitField(headerBits, 7, 6)
        /\ (g_err = NoErr) =>
               /\ mp3Header.BitRate =
                      bitRateTopDict(IF BitField(headerBits, 20, 19) = Version2_5
                                     THEN Version2 ELSE BitField(headerBits, 20, 19),
                                     BitField(headerBits, 18, 17))
                          [BitField(headerBits, 15, 12) + 1]
               /\ mp3Header.SampleFreq =
                      sampleRateDict(BitField(headerBits, 20, 19))
                          [BitField(headerBits, 11, 10) + 1]
        /\ (/\ BitField(headerBits, 20, 19) = 3
            /\ BitField(headerBits, 18, 17) = 1
            /\ BitField(headerBits, 15, 12) = 9
            /\ BitField(headerBits, 11, 10) = 0)
               => /\ g_err = NoErr
                  /\ mp3Header.BitRate = 128
                  /\ mp3Header.SampleFreq = 44100

\* the example word parsed with every other bit set
C15_Witness ==
    /\ g_pc = "calc"
    /\ headerBits = <<65531, 36864 + 192 + 831>>
    /\ mp3Header = [AudioVersion |-> Version1, Layer |-> Layer3, BitRate |-> 128,
                    SampleFreq |-> 44100, ChannelMode |-> ChannelModeMono]

\* C16: getBitRate returns for version 2.5 what it returns for version 2,
\* for every valid layer and 4-bit index; for every valid version and layer
\* it returns 0 without error for index 0 and -1 without error for index 15.
C16_BitRateOf25AndEnds ==
    /\ \A l \in {Layer1, Layer2, Layer3} : \A b \in 0..15 :
           getBitRate(Version2_5, l, b) = getBitRate(Version2, l, b)
    /\ \A v \in {Version1, Version2, Version2_5} : \A l \in {Layer1, Layer2, Layer3} :
           /\ getBitRate(v, l, 0) = <<0, NoErr>>
           /\ getBitRate(v, l, 15) = <<-1, NoErr>>
    /\ (/\ Parsed
        /\ ValidSync
        /\ BitField(headerBits, 20, 19) # VersionInvalid
        /\ BitField(headerBits, 18, 17) # LayerInvalid)
           => /\ g_err = NoErr
              /\ (BitField(headerBits, 15, 12) = 0) => mp3Header.BitRate = 0
              /\ (BitField(headerBits, 15, 12) = 15) => mp3Header.BitRate = -1
              /\ (BitField(headerBits, 20, 19) = Version2_5) =>
                     mp3Header.BitRate =
                         getBitRate(Version2, BitField(headerBits, 18, 17),
                                    BitField(headerBits, 15, 12))[1]

\* a version 2.5 word with a bitrate that differs between the versions'
\* tables
C16_Witness ==
    /\ g_pc = "calc"
    /\ ValidSync
    /\ mp3Header.AudioVersion = Version2_5
    /\ mp3Header.Layer = Layer3
    /\ BitField(headerBits, 15, 12) = 9
    /\ mp3Header.BitRate = 80
    /\ g_err = NoErr

\* C17: a word with valid frame sync whose version field is reserved (01)
\* or whose layer field is reserved (00) is rejected with an error, whatever
\* the remaining bits.
C17_ReservedRejected ==
    (/\ Parsed
     /\ ValidSync
     /\ (BitField(headerBits, 20, 19) = 1 \/ BitField(headerBits, 18, 17) = 0))
        => /\ g_pc = "return"
           /\ g_err # NoErr

\* a word of a valid version with the reserved layer, rejected
C17_Witness ==
    /\ g_pc = "return"
    /\ ValidSync
    /\ BitField(headerBits, 20, 19) = Version1
    /\ BitField(headerBits, 18, 17) = 0
    /\ g_err = ErrInvalidLayer

(***************************************************************************)
(* Properties of the size encoding (SpecSize) and of Frame.Bytes           *)
(* (SpecFrame).                                                            *)
(***************************************************************************)
\* C18: for 0 <= v <= 2^28 - 1, decodeTagSize(encodeTagSize(v)) = v, and
\* every byte encodeTagSize produces has its most significant bit clear.
C18_SizeRoundTrip ==
    (fn_pc \in {"decode", "done"} /\ fn_in >= 0 /\ fn_in <= MaxTagSize) =>
        /\ Len(fn_out[1]) = 4
        /\ \A i \in 1..4 : fn_out[1][i] \in 0..127
        /\ (fn_pc = "done") => fn_out[2] = fn_in

\* the round trip of a size that fills more than one place
C18_Witness ==
    /\ fn_pc = "done"
    /\ fn_in = 16384 + 1
    /\ fn_out = << <<0, 1, 0, 1>>, 16385 >>

\* C19: encodeTagSize clamps on overflow: every size above 2^28 - 1 encodes
\* as 7F 7F 7F 7F.
C19_OverflowClamps ==
    (fn_pc \in {"decode", "done"} /\ fn_in > MaxTagSize) =>
        fn_out[1] = <<127, 127, 127, 127>>

\* C20: reading the Bytes() of a frame with a valid ID, any flags and any
\* data gives a frame of the same ID, Flags and Data and consumes
\* len(Data) + 10 bytes.
C20_FrameRoundTrip ==
    /\ (fn_pc = "frame" /\ d_pc = "readFrame" /\ d_iter = 1) =>
           /\ d_tag[1].Frames = <<fn_in>>
           /\ d_n = lenOfHeader + Len(fn_in.Data) + 10
           /\ d_off = lenOfHeader + Len(fn_in.Data) + 10
    /\ (fn_pc = "frame" /\ d_pc = "readData") =>
           /\ d_n = lenOfHeader + 10
           /\ SubSeq(d_hdr, 1, 4) = fn_in.ID
    /\ (fn_pc = "frame" /\ DecodeReturned) =>
           /\ d_err = NoErr
           /\ d_ret[1].Frames = <<fn_in>>
           /\ d_ret[1].Frames[1].ID = fn_in.ID
           /\ d_ret[1].Frames[1].Flags = fn_in.Flags
           /\ d_ret[1].Frames[1].Data = fn_in.Data

\* a frame with both flag bytes set and data, read back
C20_Witness ==
    /\ fn_pc = "frame"
    /\ DecodeReturned
    /\ fn_in = [ID |-> idAZ09, Flags |-> 256, Data |-> <<255, 0>>]
    /\ d_ret[1].Frames = <<fn_in>>
    /\ d_n = 22

(***************************************************************************)
(* Properties of Frame.SetText and Frame.Text (SpecText).                  *)
(***************************************************************************)
\* the call under test has ended, by a return or by a panic
TextEnded == fn_pc \in {"return", "panic"}

\* utf8.ValidString
ValidString(str) == Utf8String(Runes(str)) = str

\* C21 as stated: for every string s and every text frame, SetText(s) then
\* Text() returns exactly s without error, U+0000 included.
C21_TextRoundTripAll ==
    (fn_in.op = "SetText" /\ hasText(fn_in.frame) /\ TextEnded) =>
        /\ fn_pc = "return"
        /\ fn_out.err = NoErr
        /\ fn_out.text = fn_in.str

\* C21 amended: for every valid UTF-8 string s without U+0000 and every text
\* frame, SetText(s) then Text() returns exactly s without error.
C21_TextRoundTrip ==
    (/\ fn_in.op = "SetText"
     /\ hasText(fn_in.frame)
     /\ ValidString(fn_in.str)
     /\ \A i \in 1..Len(fn_in.str) : fn_in.str[i] # 0
     /\ TextEnded)
        => /\ fn_pc = "return"
           /\ fn_out.err = NoErr
           /\ fn_out.text = fn_in.str

\* U+4E16 and U+1F600 through UTF-16, a surrogate pair included
C21_Witness ==
    /\ fn_pc = "return"
    /\ fn_in.op = "SetText"
    /\ fn_in.str = <<228, 184, 150, 240, 159, 152, 128>>
    /\ fn_out.frame.Data = <<1, 254, 255, 78, 22, 216, 61, 222, 0, 0, 0>>
    /\ fn_out.text = fn_in.str
    /\ fn_out.err = NoErr

\* the elements of s before its first zero, all of s when it has none
RECURSIVE UpToZero(_)
UpToZero(s) ==
    IF s = <<>> \/ Head(s) = 0 THEN <<>> ELSE <<Head(s)>> \o UpToZero(Tail(s))

\* C22: for a text frame whose Data starts with flag 0x00, Text() returns
\* the bytes after the flag up to the first 0x00, and all of them when there
\* is no 0x00.
C22_Latin1UpToTerminator ==
    (/\ fn_in.op = "Text"
     /\ hasText(fn_in.frame)
     /\ Len(fn_in.frame.Data) >= 1
     /\ fn_in.frame.Data[1] = textEncodingLatin1
     /\ TextEnded)
        => /\ fn_pc = "return"
           /\ fn_out.err = NoErr
           /\ fn_out.text = UpToZero(Tail(fn_in.frame.Data))

\* the payload of a frame starts with a byte-order mark
HasBOM(data) ==
    /\ Len(data) >= 3
    /\ \/ (data[2] = 254 /\ data[3] = 255)
       \/ (data[2] = 255 /\ data[3] = 254)

\* the code units behind the byte-order mark, in the order it names
UnitsBehindBOM(data) ==
    Tail(IF data[2] = 254 THEN ReadUnitsBE(Tail(data)) ELSE ReadUnitsLE(Tail(data)))

\* C23: for a text frame whose Data starts with flag 0x01 and a BOM, Text()
\* decodes the code units in the BOM's byte order up to the first zero unit,
\* or all of them when none is zero, and returns the text without error.
C23_UTF16UpToTerminator ==
    (/\ fn_in.op = "Text"
     /\ hasText(fn_in.frame)
     /\ Len(fn_in.frame.Data) >= 1
     /\ fn_in.frame.Data[1] = textEncodingUTF16
     /\ HasBOM(fn_in.frame.Data)
     /\ TextEnded)
        => /\ fn_pc = "return"
           /\ fn_out.err = NoErr
           /\ fn_out.text = Utf8String(Utf16Decode(UpToZero(UnitsBehindBOM(fn_in.frame.Data))))

\* a frame Text cannot decode
Undecodable(frame) ==
    \/ ~(frame.ID[1] = 84 \/ frame.ID[1] = 87)
    \/ Len(frame.Data) = 0
    \/ frame.Data[1] \notin {textEncodingLatin1, textEncodingUTF16}
    \/ (frame.Data[1] = textEncodingUTF16 /\ ~HasBOM(frame.Data))

\* C24: for a frame that cannot be decoded (no text ID, unknown flag, UTF-16
\* without BOM or shorter than 2 bytes, empty Data) Text returns an error
\* and the empty string, and never crashes.
C24_UndecodableGivesError ==
    (fn_in.op = "Text" /\ Undecodable(fn_in.frame) /\ TextEnded) =>
        /\ fn_pc = "return"
        /\ fn_out.err # NoErr
        /\ fn_out.text = <<>>

(***************************************************************************)
(* Properties of what is returned with an error, of the input offset and   *)
(* of the frame size.                                                      *)
(***************************************************************************)
\* C25: when Decode, the header parse or GetInfo returns an error, the value
\* returned with it is nil or has no populated field.
C25_NoPartialResult ==
    /\ (d_pc = "return" /\ d_err # NoErr) => d_ret = <<>>
    /\ (g_pc = "return" /\ g_err # NoErr) =>
           /\ tagSize = 0
           /\ mp3Header = ZeroMP3Header
           /\ duration = 0

\* the bytes present of the tag region are frames with valid IDs, the last
\* one possibly cut, or zero bytes from a frame boundary on
RECURSIVE CutWellFormed(_)
CutWellFormed(r) ==
    IF Len(r) < 10 THEN TRUE
    ELSE IF AllZero(SubSeq(r, 1, 10)) THEN TRUE
    ELSE /\ ValidID(SubSeq(r, 1, 4))
         /\ \/ 10 + Uint32BE(SubSeq(r, 5, 8)) > Len(r)
            \/ CutWellFormed(SubSeq(r, 11 + Uint32BE(SubSeq(r, 5, 8)), Len(r)))

\* the stream ends inside a frame or inside the padding of its tag
CutInsideTag ==
    /\ HasTagHeader
    /\ Len(stream) < 10 + DeclaredSize
    /\ CutWellFormed(SubSeq(stream, 11, Len(stream)))

\* C26: InputOffset() is the number of bytes consumed from the stream at
\* every point of a decode and after its return; on a stream of length
\* L < 10 + size cut inside a frame or the padding it is L after the
\* failure.
C26_InputOffsetIsConsumed ==
    /\ d_n = d_off
    /\ d_n <= Len(stream)
    /\ (DecodeReturned /\ CutInsideTag) =>
           /\ d_err # NoErr
           /\ d_n = Len(stream)

\* cut inside the data of a second frame
C26_Witness ==
    /\ DecodeReturned
    /\ CutInsideTag
    /\ d_err = ErrReadFrameFailed
    /\ Len(d_tag[1].Frames) = 1
    /\ Len(d_hdr) = 10
    /\ Uint32BE(SubSeq(d_hdr, 5, 8)) = 2
    /\ d_n = Len(stream)
    /\ d_n = 10 + 10 + Len(d_tag[1].Frames[1].Data) + 10 + 1

\* C27: the frame size readFrame takes from bytes 4-7 of a frame header
\* fits a signed 32-bit integer, and indeed 28 bits.
C27_FrameSizeFitsInt32 ==
    (d_pc = "readData") =>
        /\ frameSizeWord(d_hdr)[1] < 32768
        /\ frameSizeWord(d_hdr)[1] < 4096

(***************************************************************************)
(* Skip mode against full decode (Spec).                                   *)
(***************************************************************************)
\* C28 as stated: ReadThrough succeeds exactly when Decode succeeds on the
\* same bytes, and on success both report the same consumed byte count.
C28_SkipAgreesWithDecode ==
    (DecodeReturned /\ ReadThroughReturned) =>
        /\ (s_err = NoErr) <=> (d_err = NoErr)
        /\ (s_err = NoErr /\ d_err = NoErr) => s_ret = d_n

\* C28 amended: whenever Decode succeeds, ReadThrough succeeds on the same
\* bytes and both report the same consumed byte count, 10 + size.
C28_DecodeSuccessIsSkipSuccess ==
    (DecodeReturned /\ ReadThroughReturned /\ d_err = NoErr) =>
        /\ s_err = NoErr
        /\ s_ret = d_n
        /\ s_ret = 10 + DeclaredSize

\* both modes through a tag of two frames and padding
C28_Witness ==
    /\ DecodeSucceeded
    /\ ReadThroughSucceeded
    /\ Len(d_ret[1].Frames) = 2
    /\ DeclaredSize > 30
    /\ s_ret = d_n
    /\ s_ret = 10 + DeclaredSize

(***************************************************************************)
(* The bitrate tables (SpecParse).                                         *)
(***************************************************************************)
\* C29: in every bitrate table the entries at indices 1..14 are strictly
\* increasing positive multiples of 8, so the estimator's bitRate/8 is exact
\* and not zero.
C29_BitRatesMultiplesOf8 ==
    (/\ g_pc = "calc"
     /\ ValidSync
     /\ BitRateBits(headerBits) >= 1
     /\ BitRateBits(headerBits) <= 14)
        => /\ mp3Header.BitRate > 0
           /\ mp3Header.BitRate % 8 = 0
           /\ DurationDivisor(mp3Header.BitRate) * 8 = mp3Header.BitRate
           /\ DurationDivisor(mp3Header.BitRate) # 0
           /\ mp3Header.BitRate >
                  getBitRate(mp3Header.AudioVersion, mp3Header.Layer,
                             BitRateBits(headerBits) - 1)[1]

\* bytes of the declared region consumed so far
RegionConsumed == d_off - 10

\* inside the frame loop every iteration begun has taken ten bytes or more
\* of the region, and the region is never overrun
IterationsConsume ==
    d_pc \in {"readFrame", "readData"}
        => /\ RegionConsumed >= 10 * d_iter
           /\ RegionConsumed <= DeclaredSize

IterationBound == d_iter > 0 => d_iter <= (DeclaredSize \div 10) + 1

\* C30: Decode terminates on every input: each iteration of the frame loop
\* consumes at least 10 bytes of the size-bounded region or leaves the loop,
\* at most floor(size/10) + 1 iterations run, and the call returns.
C30_DecodeTerminates ==
    /\ [](IterationsConsume /\ IterationBound)
    /\ <>(d_pc = "return")

\* a returned Decode that ran the largest number of iterations its region
\* allows, with bytes left behind the region
C30_Witness ==
    /\ d_pc = "return"
    /\ HasTagHeader
    /\ d_iter >= 3
    /\ d_iter = (DeclaredSize \div 10) + 1
    /\ Len(stream) > 10 + DeclaredSize

====
